---- MODULE Spec2Model ----
(***************************************************************************)
(* DigitalAvator: image -> ASCII art conversion (AsciiArtGenerator) and    *)
(* the form that drives it (AsciiArtUI), modelled from src/main.py.        *)
(*                                                                         *)
(* The specifications of the module:                                       *)
(*   SpecSample   one pixel through contrast adjustment and ramp mapping   *)
(*   SpecConvert  generate_ascii_art as a function of image and parameters *)
(*   Spec         the form: user edits, start_generation, worker threads   *)
(*   SpecFair     Spec with every started thread scheduled until it ends   *)
(*   SpecFont     _get_font called by one thread on a range of machines    *)
(*   SpecRender   save_ascii_image called by threads that may overlap      *)
(*                                                                         *)
(* Reals are modelled exactly as rationals.  contrast is Contrast/         *)
(* ContrastDen, gamma is a pair <<p, q>> meaning p/q.                      *)
(***************************************************************************)
EXTENDS Integers, Sequences, FiniteSets

\* ------------------------------------------------------------------------
\* Program constants

\* main.py:24 -- the ramp, darkest glyph first (test.py:6 is the same string)
ASCII_CHARS ==
    << "@", "$", "B", "%", "8", "&", "W", "M", "#", "*", "o", "a", "h", "k",
       "b", "d", "p", "q", "w", "m", "Z", "O", "0", "Q", "L", "C", "J", "U",
       "Y", "X", "z", "c", "v", "u", "n", "x", "r", "j", "f", "t", "/", "\\",
       "|", "(", ")", "1", "{", "}", "[", "]", "?", "-", "_", "+", "~", "<",
       ">", "i", "!", "l", "I", ";", ":", ",", "\"", "^", "`", "'", ".", " " >>

\* main.py:63
char_length == Len(ASCII_CHARS)

\* main.py:47,65 -- the largest 8-bit sample
MaxSample == 255

\* main.py:46 -- the pivot of the contrast stretch
MidGray == 128

\* np.uint8 holds values modulo this
Uint8Modulus == 256

Samples == 0..MaxSample

\* ------------------------------------------------------------------------
\* Bounds of the model

\* contrast values are multiples of 1/ContrastDen
ContrastDen == 10

\* side lengths of the source images, 1..MaxSrcDim
MaxSrcDim == 3

\* output_width ranges over -1..MaxOutWidth
MaxOutWidth == 4

\* contrast in [0.1, 5.0], as numerators over ContrastDen
Contrasts == { cn \in 1..(5 * ContrastDen) : 10 * cn >= ContrastDen }

\* gamma = p/q; the exponents are small enough for 32-bit products
Gammas == { <<1, 3>>, <<1, 2>>, <<1, 1>>, <<2, 1>>, <<3, 1>> }

\* ------------------------------------------------------------------------
\* Arithmetic helpers

RECURSIVE Pow(_, _)
Pow(b, e) == IF e = 0 THEN 1 ELSE b * Pow(b, e - 1)

Min(a, b) == IF a <= b THEN a ELSE b

\* int(x) / astype(int): truncation toward zero of the rational num/den, den > 0
TruncDiv(num, den) == IF num >= 0 THEN num \div den ELSE -((-num) \div den)

\* ------------------------------------------------------------------------
\* Contrast adjustment, main.py:44-48.  A sample's value is carried as a
\* numerator over ContrastDen until it is narrowed.

\* main.py:46  (img - 128) * contrast + 128
ContrastRaw(v, cn) == (v - MidGray) * cn + MidGray * ContrastDen

\* Faulty variant: np.clip left out, the raw value goes to astype(np.uint8) unclamped.
ClipOmitted(num) == num

\* main.py:47  np.clip(img, 0, 255)
Clip(num) ==
    IF num < 0 THEN 0
    ELSE IF num > MaxSample * ContrastDen THEN MaxSample * ContrastDen
    ELSE num

\* main.py:47  .astype(np.uint8): truncate, keep the low 8 bits
Narrow8(num) == TruncDiv(num, ContrastDen) % Uint8Modulus

\* The samples line 45-47 can store for source sample v.  The arithmetic is
\* float32: where the exact value is a whole number strictly inside the
\* range, the rounded product may fall just below it and truncate to one
\* less (e.g. v = 23, contrast = 1.2 stores 1, the exact value is 2).
AdjustContrast(v, cn) ==
    LET c == Clip(ContrastRaw(v, cn))
        exact == Narrow8(c)
    IN  IF c % ContrastDen = 0 /\ c > 0 /\ c < MaxSample * ContrastDen
        THEN {exact - 1, exact}
        ELSE {exact}

\* ------------------------------------------------------------------------
\* Ramp mapping, main.py:63-69

\* The largest k' >= k with k'^q * d <= n, searched upwards from k
RECURSIVE FloorRoot(_, _, _, _)
FloorRoot(k, q, d, n) ==
    IF Pow(k + 1, q) * d <= n THEN FloorRoot(k + 1, q, d, n) ELSE k

\* floor(scale * (v/255)^(p/q)): the largest k with
\* k^q * 255^p <= scale^q * v^p
FloorScaledPow(v, p, q, scale) ==
    LET d == Pow(MaxSample, p)
        n == Pow(scale, q) * Pow(v, p)
    IN  FloorRoot(0, q, d, n)

\* Faulty variant: scales by the ramp length instead of the ramp length - 1.
GammaIndexFullRamp(v, g) == FloorScaledPow(v, g[1], g[2], char_length)

\* Faulty variant: scales by the ramp length and wraps the result into the ramp.
GammaIndexWrapped(v, g) ==
    FloorScaledPow(v, g[1], g[2], char_length) % char_length

\* main.py:65-69  ((pixels / 255.0) ** gamma * (char_length - 1)).astype(int32)
\* The float32 evaluation truncates to the same index as the exact value for
\* every sample and every gamma of Gammas.
GammaIndex(v, g) == FloorScaledPow(v, g[1], g[2], char_length - 1)

\* The mapping tabulated once per gamma.
IndexTable == [g \in Gammas |-> [u \in Samples |-> GammaIndex(u, g)]]


\* ------------------------------------------------------------------------
\* generate_ascii_art, main.py:36-78 (test.py:8-46 is the same pipeline
\* without the try/except wrapper)

\* An input path names no file, a file that is no image, or an image.  The
\* images modelled are of one colour: sw x sh pixels of grey level v.
ImageFile(sw, sh, v) == [kind |-> "image", w |-> sw, h |-> sh, v |-> v]
MissingFile == [kind |-> "missing", w |-> 0, h |-> 0, v |-> 0]
CorruptFile == [kind |-> "corrupt", w |-> 0, h |-> 0, v |-> 0]

\* main.py:40-41  Image.open(...).convert('L') succeeds on images only
OpenImage(file) == file.kind = "image"

\* main.py:51-54  int(output_width * (height / width) * 0.5)
NewHeight(W, sw, sh) == TruncDiv(W * sh, 2 * sw)

\* main.py:57  Image.resize raises ValueError("height and width must be > 0")
\* unless both sides are at least 1
ResizeOk(W, H) == W >= 1 /\ H >= 1

\* main.py:57  LANCZOS resampling of a one-colour image gives a one-colour
\* image; the fixed-point kernel may move the level by one
Resample(a) == { u \in Samples : a - 1 <= u /\ u <= a + 1 }

\* main.py:60  np.array(img): H rows of W samples
PixelArray(W, H, u) == [r \in 1..H |-> [c \in 1..W |-> u]]

\* main.py:72  indices.flatten(): row-major
Flatten(arr, W, H) ==
    [n \in 1..(H * W) |-> arr[((n - 1) \div W) + 1][((n - 1) % W) + 1]]

\* Faulty variant: the slice is one character too long and the step follows it.
SplitLinesLong(str, W) ==
    [i \in 1..((Len(str) + W) \div (W + 1)) |->
        SubSeq(str, (i - 1) * (W + 1) + 1, Min(i * (W + 1), Len(str)))]

\* main.py:75  [ascii_str[i:i+W] for i in range(0, len(ascii_str), W)]
SplitLines(str, W) ==
    [i \in 1..((Len(str) + W - 1) \div W) |->
        SubSeq(str, (i - 1) * W + 1, Min(i * W, Len(str)))]

ConvertFailed(why, H) ==
    [status |-> "error", cause |-> why, new_height |-> H, lines |-> << >>]

\* main.py:60-75 on the resized image of level u
AsciiLines(W, H, u, g) ==
    LET pixels == PixelArray(W, H, u)
        indices == [r \in 1..H |-> [c \in 1..W |-> GammaIndex(pixels[r][c], g)]]
        flat == Flatten(indices, W, H)
        ascii_str == [n \in 1..Len(flat) |-> ASCII_CHARS[flat[n] + 1]]
    IN  SplitLines(ascii_str, W)

\* The outcomes of generate_ascii_art(file, W, contrast, gamma): the grid, or
\* the RuntimeError of line 78 with what raised it
GenerateAsciiArt(file, W, cn, g) ==
    IF ~OpenImage(file) THEN { ConvertFailed("decode", 0) }
    ELSE LET H == NewHeight(W, file.w, file.h) IN
         IF ~ResizeOk(W, H) THEN { ConvertFailed("resize", H) }
         ELSE { [status |-> "ok", cause |-> "none", new_height |-> H,
                 lines |-> AsciiLines(W, H, u, g)] :
                u \in UNION { Resample(a) : a \in AdjustContrast(file.v, cn) } }

\* ------------------------------------------------------------------------
\* State

VARIABLES
    sample,        \* SpecSample: the source sample
    adjusted,      \* SpecSample: the sample after contrast adjustment
    index,         \* SpecSample: the ramp index of the adjusted sample
    stage,         \* SpecSample: "source", "adjusted", "mapped"
    contrast,      \* the contrast parameter (numerator over ContrastDen)
    gamma,         \* the gamma parameter <<p, q>>
    image,         \* SpecConvert: the file behind image_path
    output_width,  \* SpecConvert: the output_width argument
    result,        \* SpecConvert: what generate_ascii_art gave, or Pending
    widget_state,  \* Spec: the state option of every button of the form
    dir_exists,    \* Spec: which output directories exist
    files,         \* Spec: the output files that exist, as <<dir, name>>
    threads,       \* Spec: the generate_ascii threads, by slot
    font_env,      \* SpecRender: the fonts of the machine and the imaging library
    font_cache,    \* SpecRender: self.font_cache, by font size
    cache_writes,  \* SpecRender: how often line 167 has stored each size
    requested,     \* SpecRender: the font sizes asked of _get_font so far
    png_file,      \* SpecRender: what is at the output path of the renderer
    callers,       \* SpecRender: the threads that call save_ascii_image
    calls          \* SpecRender: the save_ascii_image call of each thread

vars == << sample, adjusted, index, stage, contrast, gamma,
           image, output_width, result,
           widget_state, dir_exists, files, threads,
           font_env, font_cache, cache_writes, requested, png_file,
           callers, calls >>

sampleVars == << sample, adjusted, index, stage >>
convertVars == << image, output_width, result >>
uiVars == << widget_state, dir_exists, files, threads >>
renderVars == << font_env, font_cache, cache_writes, requested, png_file,
                callers, calls >>

Pending == [status |-> "pending", cause |-> "none", new_height |-> 0,
            lines |-> << >>]

SampleIdle == sample = 0 /\ adjusted = 0 /\ index = 0 /\ stage = "off"
ConvertIdle == image = MissingFile /\ output_width = 0 /\ result = Pending
UiIdle ==
    widget_state = << >> /\ dir_exists = << >> /\ files = {} /\ threads = << >>
RenderIdle ==
    /\ font_env = << >> /\ font_cache = << >> /\ cache_writes = << >>
    /\ requested = {} /\ png_file = "absent" /\ callers = {} /\ calls = << >>

\* ------------------------------------------------------------------------
\* SpecSample: one sample through lines 44-48 and 63-69

SampleInit ==
    /\ sample \in Samples
    /\ contrast \in Contrasts
    /\ gamma \in Gammas
    /\ adjusted = 0
    /\ index = 0
    /\ stage = "source"
    /\ ConvertIdle
    /\ UiIdle
    /\ RenderIdle

\* main.py:44-48
ContrastStep ==
    /\ stage = "source"
    /\ adjusted' \in AdjustContrast(sample, contrast)
    /\ stage' = "adjusted"
    /\ UNCHANGED << sample, index, contrast, gamma, convertVars, uiVars, renderVars >>

\* main.py:63-69
IndexStep ==
    /\ stage = "adjusted"
    /\ index' = GammaIndex(adjusted, gamma)
    /\ stage' = "mapped"
    /\ UNCHANGED << sample, adjusted, contrast, gamma, convertVars, uiVars, renderVars >>

SampleNext == ContrastStep \/ IndexStep

SpecSample == SampleInit /\ [][SampleNext]_vars

\* C3: for every sample 0..255 and every gamma, the character index computed
\* for the sample lies in 0..char_length-1 (char_length = 70), so indexing
\* ASCII_CHARS is never out of range.
C3_IndexInRange ==
    stage = "mapped" =>
        /\ index >= 0
        /\ index <= char_length - 1
        /\ index + 1 \in DOMAIN ASCII_CHARS

\* The brightest sample has been mapped, to the last character of the ramp.
C3_Witness ==
    stage = "mapped" /\ adjusted = MaxSample /\ index = char_length - 1

\* C4: for every sample and every contrast in [0.1, 5.0] the stored sample is
\* the contrast-adjusted value saturated into 0..255: 0 when the raw value is
\* at or below 0, 255 when it is at or above 255, and otherwise the raw value
\* truncated (within one float32 rounding step); it never wraps around.
C4_ContrastClamped ==
    stage # "source" =>
        LET raw == ContrastRaw(sample, contrast) IN
        /\ adjusted \in Samples
        /\ raw <= 0 => adjusted = 0
        /\ raw >= MaxSample * ContrastDen => adjusted = MaxSample
        /\ (raw > 0 /\ raw < MaxSample * ContrastDen) =>
               /\ adjusted * ContrastDen <= raw
               /\ raw < (adjusted + 2) * ContrastDen

\* A raw value above 255 has been stored as 255.
C4_Witness ==
    /\ stage = "adjusted"
    /\ ContrastRaw(sample, contrast) > (MaxSample + 1) * ContrastDen
    /\ adjusted = MaxSample

\* C5: for a fixed gamma the mapping sample -> index is monotonic
\* non-decreasing: no darker sample maps to a larger index than the mapped
\* sample, and no brighter one to a smaller index.
C5_Monotonic ==
    stage = "mapped" =>
        \A u \in Samples :
            /\ u <= adjusted => IndexTable[gamma][u] <= index
            /\ u >= adjusted => IndexTable[gamma][u] >= index

\* A sample has been mapped strictly above a darker one and strictly below a
\* brighter one.
C5_Witness ==
    /\ stage = "mapped"
    /\ \E u \in Samples : u < adjusted /\ IndexTable[gamma][u] < index
    /\ \E u \in Samples : u > adjusted /\ IndexTable[gamma][u] > index

\* ------------------------------------------------------------------------
\* SpecConvert: generate_ascii_art on every modelled input

SourceFiles ==
    { MissingFile, CorruptFile } \cup
    { ImageFile(sw, sh, v) : sw \in 1..MaxSrcDim, sh \in 1..MaxSrcDim,
                             v \in {0, MidGray, MaxSample} }

OutWidths == (-1)..MaxOutWidth

ConvertInit ==
    /\ image \in SourceFiles
    /\ output_width \in OutWidths
    /\ contrast \in { cn \in Contrasts : cn % 5 = 0 }
    /\ gamma \in Gammas
    /\ result = Pending
    /\ SampleIdle
    /\ UiIdle
    /\ RenderIdle

\* main.py:36-78
GenerateAsciiArtCall ==
    /\ result = Pending
    /\ result' \in GenerateAsciiArt(image, output_width, contrast, gamma)
    /\ UNCHANGED << image, output_width, contrast, gamma, sampleVars, uiVars, renderVars >>

ConvertNext == GenerateAsciiArtCall

SpecConvert == ConvertInit /\ [][ConvertNext]_vars

\* C1: for a decodable image and output_width >= 1, the grid that
\* generate_ascii_art returns has exactly new_height lines, and every line
\* except possibly the last has exactly output_width characters (the last
\* has at least one and at most output_width).
C1_GridShape ==
    (image.kind = "image" /\ output_width >= 1 /\ result.status = "ok") =>
        LET lines == result.lines IN
        /\ Len(lines) = NewHeight(output_width, image.w, image.h)
        /\ \A i \in 1..Len(lines) :
               /\ i < Len(lines) => Len(lines[i]) = output_width
               /\ Len(lines[i]) >= 1
               /\ Len(lines[i]) <= output_width

\* A grid of several lines of several characters has been returned.
C1_Witness ==
    /\ result.status = "ok"
    /\ output_width >= 2
    /\ Len(result.lines) >= 2

\* C2: for a decodable image with positive sides and output_width >= 1, the
\* height generate_ascii_art resizes to is at least 1.
C2_MinHeight ==
    (image.kind = "image" /\ output_width >= 1 /\ result.status # "pending") =>
        result.new_height >= 1

\* ------------------------------------------------------------------------
\* The form, main.py:189-580

\* main.py:307-462  create_widgets: every widget's master
Root == "."
WidgetParent ==
    [ main_frame |-> Root,
      title_frame |-> "main_frame",
      sep |-> "main_frame",
      left_panel |-> "main_frame",
      right_panel |-> "main_frame",
      input_frame |-> "left_panel",
      output_frame |-> "left_panel",
      params_frame |-> "left_panel",
      options_frame |-> "left_panel",
      button_frame |-> "left_panel",
      status_frame |-> "left_panel",
      browse_image_button |-> "input_frame",
      browse_output_button |-> "output_frame",
      start_button |-> "button_frame",
      open_dir_button |-> "button_frame",
      exit_button |-> "button_frame" ]

\* main.py:307-462  create_widgets: every widget's class
WidgetClass ==
    [ main_frame |-> "Frame",
      title_frame |-> "Frame",
      sep |-> "Separator",
      left_panel |-> "LabelFrame",
      right_panel |-> "LabelFrame",
      input_frame |-> "Frame",
      output_frame |-> "Frame",
      params_frame |-> "Frame",
      options_frame |-> "LabelFrame",
      button_frame |-> "Frame",
      status_frame |-> "Frame",
      browse_image_button |-> "ModernButton",
      browse_output_button |-> "ModernButton",
      start_button |-> "ModernButton",
      open_dir_button |-> "ModernButton",
      exit_button |-> "ModernButton" ]

\* main.py:506,574  isinstance(widget, (ttk.Button, ModernButton))
IsButton(w) == WidgetClass[w] \in { "Button", "ModernButton" }

Buttons == { w \in DOMAIN WidgetClass : IsButton(w) }

\* Tk's winfo_children: the widgets whose master is w
winfo_children(w) == { c \in DOMAIN WidgetParent : WidgetParent[c] = w }

\* Faulty variant: the disabling loop reaches every button of the form, the
\* re-enabling loop of the finally clause only the children of the window.
ConfigButtonsDisableDeep(ws, st) ==
    [ b \in DOMAIN ws |->
        IF IsButton(b) /\ (st = "disabled" \/ b \in winfo_children(Root))
        THEN st ELSE ws[b] ]

\* main.py:505-507 and 573-575: set the state of the buttons among the
\* children of the window
ConfigButtons(ws, st) ==
    [ b \in DOMAIN ws |->
        IF b \in winfo_children(Root) /\ IsButton(b) THEN st ELSE ws[b] ]

\* The form variables (input_path, output_dir, width_var, ..., the check
\* boxes) are bound to entries, sliders and check boxes the user may change
\* at any moment, also while a thread runs, so every read of one yields any
\* of the values below.  generate_ascii validates none but input_path.
\*   input_path: empty, a path with no file, a file that is no image, an image
\*   output_dir: one directory, absent until a thread creates it
InputPaths == { "", "gone.png", "notes.txt", "photo.png" }
OutputDirs == { "out" }
UiWidths == { -1, 0, MaxOutWidth }
UiContrasts == { ContrastDen }
UiGammas == { <<1, 1>> }

\* The files behind the input paths
FileAt(p) ==
    CASE p = "photo.png" -> ImageFile(2, 2, MaxSample)
      [] p = "notes.txt" -> CorruptFile
      [] OTHER -> MissingFile

\* main.py:500,523  input_path and os.path.exists(input_path)
ValidInput(p) == p # "" /\ FileAt(p).kind # "missing"

\* main.py:531  os.path.splitext(os.path.basename(input_path))[0]
base_name(p) ==
    CASE p = "photo.png" -> "photo"
      [] p = "notes.txt" -> "notes"
      [] p = "gone.png" -> "gone"
      [] OTHER -> ""

\* main.py:532-533  txt_path, png_path: kind is "txt" or "png"
OutputPath(dir, p, kind) == << dir, base_name(p), kind >>

\* The slots of the generate_ascii threads that may be alive together; a
\* slot is free again when its thread has ended
ThreadIds == { 1, 2 }

IdleThread ==
    [ pc |-> "idle",          \* where the thread is in generate_ascii
      input_path |-> "",      \* local input_path
      output_dir |-> "",      \* local output_dir
      ascii_lines |-> << >>,  \* local ascii_lines
      width |-> {},           \* the output_width passed to the generator
      steps |-> << >>,        \* the steps run so far, in order
      save_text |-> {},       \* the value read from save_text_var, once read
      save_image |-> {},      \* the value read from save_image_var, once read
      failed |-> "none",      \* what raised, if anything did
      touched |-> {},         \* the kinds of output file created or rewritten
      created_dir |-> FALSE,  \* whether line 528 created the directory
      errors |-> 0,           \* error dialogs shown (line 570)
      outcome |-> "none" ]    \* the last status this thread has set

UiInit ==
    /\ widget_state = [ b \in Buttons |-> "normal" ]
    /\ dir_exists = [ d \in OutputDirs |-> FALSE ]
    /\ files = {}
    /\ threads = [ t \in ThreadIds |-> IdleThread ]
    /\ contrast = ContrastDen
    /\ gamma = <<1, 1>>
    /\ SampleIdle
    /\ ConvertIdle
    /\ RenderIdle

InFlight == { t \in ThreadIds : threads[t].pc # "idle" }

\* Where a thread goes after a step of the try block: on, or to the except
\* clause of line 568 when the step raised
\* Faulty variant: a failed conversion is swallowed and the thread goes on.
ConvertErrorSwallowed(ok) == "preview"

\* Faulty variant: a failed text save is swallowed and the thread goes on.
SaveTextErrorSwallowed(ok) == "save_image"

NextAfterConvert(ok) == IF ok THEN "preview" ELSE "except"
NextAfterPreview(ok) == IF ok THEN "save_text" ELSE "except"
NextAfterSaveText(ok) == IF ok THEN "save_image" ELSE "except"
NextAfterSaveImage(ok) == IF ok THEN "finally" ELSE "except"

\* Faulty variant: the check box is ignored.
ShouldSaveAlways(flag) == TRUE

\* main.py:553,557  a file is written when its check box is set
ShouldSave(flag) == flag = 1

\* main.py:497-513  start_generation, the command of the start button.  Tk
\* runs the command of a button only while its state is not disabled.  The
\* new thread takes the lowest free slot; with no slot free the click is
\* not modelled.
StartGeneration ==
    /\ widget_state["start_button"] # "disabled"
    /\ \E t \in ThreadIds :
        /\ threads[t].pc = "idle"
        /\ \A u \in ThreadIds : threads[u].pc = "idle" => t <= u
        /\ \E p \in InputPaths :
            IF ~ValidInput(p)
            THEN UNCHANGED << widget_state, threads >>
            ELSE /\ widget_state' = ConfigButtons(widget_state, "disabled")
                 /\ threads' = [threads EXCEPT ![t] =
                                    [IdleThread EXCEPT !.pc = "begin"]]
    /\ UNCHANGED << dir_exists, files, sampleVars, convertVars, renderVars, contrast, gamma >>

\* main.py:519-533  read the paths, validate, create the output directory
Prepare(t) ==
    /\ threads[t].pc = "begin"
    /\ \E p \in InputPaths, d \in OutputDirs :
        IF ~ValidInput(p)
        THEN /\ threads' = [threads EXCEPT ![t].pc = "finally",
                                           ![t].input_path = p,
                                           ![t].output_dir = d,
                                           ![t].outcome = "invalid_input"]
             /\ UNCHANGED dir_exists
        ELSE /\ dir_exists' = [dir_exists EXCEPT ![d] = TRUE]
             /\ threads' = [threads EXCEPT ![t].pc = "convert",
                                           ![t].input_path = p,
                                           ![t].output_dir = d,
                                           ![t].created_dir = ~dir_exists[d]]
    /\ UNCHANGED << widget_state, files, sampleVars, convertVars, renderVars, contrast, gamma >>

\* main.py:535-541  the call of generate_ascii_art
Convert(t) ==
    /\ threads[t].pc = "convert"
    /\ \E w \in UiWidths, cn \in UiContrasts, g \in UiGammas :
        \E r \in GenerateAsciiArt(FileAt(threads[t].input_path), w, cn, g) :
            threads' = [threads EXCEPT
                ![t].pc = NextAfterConvert(r.status = "ok"),
                ![t].width = {w},
                ![t].steps = Append(@, "convert"),
                ![t].ascii_lines = r.lines,
                ![t].failed = IF r.status = "ok" THEN "none" ELSE r.cause]
    /\ UNCHANGED << widget_state, dir_exists, files,
                    sampleVars, convertVars, renderVars, contrast, gamma >>

\* main.py:543-550  the preview, when its check box is set; the widget calls
\* raise when the window is gone
Preview(t) ==
    /\ threads[t].pc = "preview"
    /\ \E preview_var \in {0, 1} :
        IF preview_var = 1
        THEN \E ok \in BOOLEAN :
                threads' = [threads EXCEPT
                    ![t].pc = NextAfterPreview(ok),
                    ![t].steps = Append(@, "preview"),
                    ![t].failed = IF ok THEN "none" ELSE "preview"]
        ELSE threads' = [threads EXCEPT ![t].pc = NextAfterPreview(TRUE)]
    /\ UNCHANGED << widget_state, dir_exists, files,
                    sampleVars, convertVars, renderVars, contrast, gamma >>

\* main.py:552-554 and 80-87  save_ascii_text, when its check box is set.
\* open() may fail before the file exists, write() after.
SaveText(t) ==
    /\ threads[t].pc = "save_text"
    /\ \E save_text_var \in {0, 1} :
        IF ShouldSave(save_text_var)
        THEN \E io \in { "ok", "open_fails", "write_fails" } :
                /\ threads' = [threads EXCEPT
                      ![t].pc = NextAfterSaveText(io = "ok"),
                      ![t].save_text = {save_text_var},
                      ![t].steps = Append(@, "save_text"),
                      ![t].failed = IF io = "ok" THEN "none" ELSE "save_text",
                      ![t].touched = IF io = "open_fails" THEN @
                                     ELSE @ \cup { "txt" }]
                /\ files' = IF io = "open_fails" THEN files
                            ELSE files \cup { OutputPath(threads[t].output_dir,
                                                  threads[t].input_path, "txt") }
        ELSE /\ threads' = [threads EXCEPT
                    ![t].pc = NextAfterSaveText(TRUE),
                    ![t].save_text = {save_text_var}]
             /\ UNCHANGED files
    /\ UNCHANGED << widget_state, dir_exists,
                    sampleVars, convertVars, renderVars, contrast, gamma >>

\* main.py:556-566 and 89-130  save_ascii_image, when its check box is set,
\* then the status of line 566.  Rendering may fail before the file exists,
\* img.save() after.
SaveImage(t) ==
    /\ threads[t].pc = "save_image"
    /\ \E save_image_var \in {0, 1} :
        IF ShouldSave(save_image_var)
        THEN \E io \in { "ok", "render_fails", "write_fails" } :
                /\ threads' = [threads EXCEPT
                      ![t].pc = NextAfterSaveImage(io = "ok"),
                      ![t].save_image = {save_image_var},
                      ![t].steps = Append(@, "save_image"),
                      ![t].failed = IF io = "ok" THEN "none" ELSE "save_image",
                      ![t].outcome = IF io = "ok" THEN "success" ELSE @,
                      ![t].touched = IF io = "render_fails" THEN @
                                     ELSE @ \cup { "png" }]
                /\ files' = IF io = "render_fails" THEN files
                            ELSE files \cup { OutputPath(threads[t].output_dir,
                                                  threads[t].input_path, "png") }
        ELSE /\ threads' = [threads EXCEPT
                    ![t].pc = NextAfterSaveImage(TRUE),
                    ![t].save_image = {save_image_var},
                    ![t].outcome = "success"]
             /\ UNCHANGED files
    /\ UNCHANGED << widget_state, dir_exists,
                    sampleVars, convertVars, renderVars, contrast, gamma >>

\* main.py:568-570  the except clause: the status and one error dialog
ReportError(t) ==
    /\ threads[t].pc = "except"
    /\ threads' = [threads EXCEPT ![t].pc = "finally",
                                  ![t].errors = @ + 1,
                                  ![t].outcome = "error"]
    /\ UNCHANGED << widget_state, dir_exists, files,
                    sampleVars, convertVars, renderVars, contrast, gamma >>

\* main.py:571-575  the finally clause, after which the thread ends
Finally(t) ==
    /\ threads[t].pc = "finally"
    /\ widget_state' = ConfigButtons(widget_state, "normal")
    /\ threads' = [threads EXCEPT ![t] = IdleThread]
    /\ UNCHANGED << dir_exists, files, sampleVars, convertVars, renderVars, contrast, gamma >>

Next ==
    \/ StartGeneration
    \/ \E t \in ThreadIds : Prepare(t)
    \/ \E t \in ThreadIds : Convert(t)
    \/ \E t \in ThreadIds : Preview(t)
    \/ \E t \in ThreadIds : SaveText(t)
    \/ \E t \in ThreadIds : SaveImage(t)
    \/ \E t \in ThreadIds : ReportError(t)
    \/ \E t \in ThreadIds : Finally(t)

Spec == UiInit /\ [][Next]_vars

\* ------------------------------------------------------------------------
\* Properties of the form

Range(seq) == { seq[i] : i \in DOMAIN seq }

\* The steps of one invocation, in the order of lines 535-564
StepRank(step) ==
    CASE step = "convert" -> 1
      [] step = "preview" -> 2
      [] step = "save_text" -> 3
      [] step = "save_image" -> 4

InOrder(steps) ==
    \A i, j \in DOMAIN steps : i < j => StepRank(steps[i]) < StepRank(steps[j])

\* The step in which a failure was raised
FailedStep(failed) ==
    IF failed \in { "decode", "resize" } THEN "convert" ELSE failed

\* C6: an invocation that calls the generator with output_width <= 0 stops
\* there: the conversion fails (on a decodable image, because the size is
\* rejected), no later step runs, the invocation creates no output file,
\* and when it ends exactly one error has been reported.
C6_InvalidWidth ==
    \A t \in ThreadIds :
        LET th == threads[t] IN
        (th.width # {} /\ \A w \in th.width : w <= 0) =>
            /\ th.pc \in { "except", "finally" }
            /\ th.failed \in { "decode", "resize" }
            /\ FileAt(th.input_path).kind = "image" => th.failed = "resize"
            /\ th.touched = {}
            /\ th.pc = "finally" => (th.errors = 1 /\ th.outcome = "error")

\* An invocation on a valid image with output_width = 0 has ended with the
\* size error reported.
C6_Witness ==
    \E t \in ThreadIds :
        /\ threads[t].pc = "finally"
        /\ threads[t].width = {0}
        /\ FileAt(threads[t].input_path).kind = "image"
        /\ threads[t].failed = "resize"
        /\ threads[t].errors = 1

\* C7: an invocation whose input path is missing or cannot be decoded ends
\* in an input error (the invalid-path status or the decode error), and it
\* has not created the output directory.
C7_NoDirOnBadInput ==
    \A t \in ThreadIds :
        LET th == threads[t] IN
        (th.pc = "finally"
            /\ FileAt(th.input_path).kind \in { "missing", "corrupt" }) =>
            /\ th.outcome = "invalid_input" \/ th.failed = "decode"
            /\ ~th.created_dir

\* C8: a file of each kind is written only if its check box was set; a
\* successful invocation has written exactly the kinds whose boxes were set,
\* so with save_text set and save_image clear exactly the text file.
C8_OnlyToggledFiles ==
    \A t \in ThreadIds :
        LET th == threads[t]
            wanted == { k \in { "txt", "png" } :
                          \/ k = "txt" /\ th.save_text = {1}
                          \/ k = "png" /\ th.save_image = {1} }
        IN  /\ th.touched \subseteq wanted
            /\ (th.pc = "finally" /\ th.outcome = "success") =>
                  /\ th.touched = wanted
                  /\ \A k \in wanted :
                        OutputPath(th.output_dir, th.input_path, k) \in files
                  /\ (th.save_text = {1} /\ th.save_image = {0}) =>
                        th.touched = { "txt" }

\* A successful invocation with save_text set and save_image clear has
\* written the text file alone.
C8_Witness ==
    \E t \in ThreadIds :
        /\ threads[t].pc = "finally"
        /\ threads[t].outcome = "success"
        /\ threads[t].save_text = {1}
        /\ threads[t].save_image = {0}
        /\ threads[t].touched = { "txt" }
        /\ OutputPath(threads[t].output_dir, threads[t].input_path, "txt")
               \in files

\* C9: the steps of an invocation run in the order convert, preview, save
\* text, save image; the step that fails is the last one run; a failed
\* conversion or preview leaves no file of the invocation, a failed text
\* save no PNG, a failed image save keeps the text file written before it;
\* an invocation in which a step failed ends with exactly one error
\* reported, any other with none.
C9_AbortOnFailure ==
    \A t \in ThreadIds :
        LET th == threads[t] IN
        /\ InOrder(th.steps)
        /\ th.failed # "none" =>
              /\ th.pc \in { "except", "finally" }
              /\ th.steps # << >>
              /\ th.steps[Len(th.steps)] = FailedStep(th.failed)
        /\ FailedStep(th.failed) \in { "convert", "preview" } => th.touched = {}
        /\ th.failed = "save_text" => "png" \notin th.touched
        /\ (th.failed = "save_image" /\ "save_text" \in Range(th.steps)) =>
              /\ "txt" \in th.touched
              /\ OutputPath(th.output_dir, th.input_path, "txt") \in files
        /\ th.errors <= 1
        /\ th.pc = "finally" =>
              th.errors = (IF th.failed = "none" THEN 0 ELSE 1)

\* An invocation has ended after its image save failed, with the text file
\* in place and one error reported.
C9_Witness ==
    \E t \in ThreadIds :
        /\ threads[t].pc = "finally"
        /\ threads[t].failed = "save_image"
        /\ threads[t].steps = << "convert", "preview", "save_text", "save_image" >>
        /\ "txt" \in threads[t].touched
        /\ threads[t].errors = 1

\* C10: at most one generate thread is in flight, and while one is the start
\* button is disabled.
C10_SingleWorker ==
    /\ Cardinality(InFlight) <= 1
    /\ InFlight # {} => widget_state["start_button"] = "disabled"

\* ------------------------------------------------------------------------
\* Progress of the threads

\* main.py:515-575  the steps of one generate_ascii thread
ThreadStep(t) ==
    \/ Prepare(t)
    \/ Convert(t)
    \/ Preview(t)
    \/ SaveText(t)
    \/ SaveImage(t)
    \/ ReportError(t)
    \/ Finally(t)

\* main.py:513  a started thread is scheduled until it ends: every call it
\* makes returns (the file operations, and the error dialog once the user
\* has dismissed it).  Nothing obliges the user to press the start button.
ThreadsRun == \A t \in ThreadIds : WF_vars(ThreadStep(t))

SpecFair == Spec /\ ThreadsRun

\* C11: every started generate thread eventually ends, by success, by the
\* failure of a step or by the early return on an invalid input path, and
\* when it has ended the start button is enabled.
C11_WorkerFinishes ==
    \A t \in ThreadIds :
        (threads[t].pc # "idle") ~>
            (threads[t].pc = "idle" /\ widget_state["start_button"] = "normal")

\* A thread is in its finally clause after the failure of a step, after a
\* success, or after the early return, with the start button enabled.
C11_Witness ==
    /\ widget_state["start_button"] = "normal"
    /\ \E t \in ThreadIds :
          /\ threads[t].pc = "finally"
          /\ threads[t].outcome = "error"
    /\ \E t \in ThreadIds :
          /\ threads[t].pc = "finally"
          /\ threads[t].outcome \in { "success", "invalid_input" }

\* ------------------------------------------------------------------------
\* Font resolution, main.py:132-171 (test.py:51-86 is the same chain without
\* the cache)

\* main.py:28-34  the font files, in the order they are tried
default_font_paths ==
    << "/System/Library/Fonts/Menlo.ttc",
       "/usr/share/fonts/truetype/ubuntu/UbuntuMono-R.ttf",
       "C:/Windows/Fonts/consola.ttf",
       "C:/Windows/Fonts/lucon.ttf",
       "C:/Windows/Fonts/CascadiaMono.ttf" >>

\* main.py:154  the font names, in the order they are tried
common_fonts == << "consola", "cour", "menlo", "dejavusansmono", "ubuntumono" >>

\* The font sizes asked for: the default of the form's slider (main.py:396)
\* and the default of save_ascii_image (main.py:89)
FontSizes == { 8, 10 }

\* main.py:101  the size of a character when the font has no getsize
FallbackCharSize == << 6, 12 >>

\* What _get_font finds on the machine:
\*   path_state[i]  the i-th font file is absent, is there but cannot be
\*                  loaded (ImageFont.truetype raises), or loads
\*   name_ok[j]     ImageFont.truetype finds and loads the j-th font name
\*   builtin_ok     ImageFont.load_default() returns a font
\*   has_getsize    the font objects of the imaging library have the method
\*                  getsize (removed from the library in its version 10)
FontEnv(ps, ns, b, gs) ==
    [ path_state |-> ps, name_ok |-> ns, builtin_ok |-> b, has_getsize |-> gs ]

PathStates == { "absent", "broken", "ok" }

\* The machines with at most maxFiles font files present and at most
\* maxNames font names known
FontEnvs(maxFiles, maxNames) ==
    { FontEnv(ps, ns, b, gs) :
        ps \in { f \in [DOMAIN default_font_paths -> PathStates] :
                   Cardinality({ i \in DOMAIN f : f[i] # "absent" }) <= maxFiles },
        ns \in { f \in [DOMAIN common_fonts -> BOOLEAN] :
                   Cardinality({ j \in DOMAIN f : f[j] }) <= maxNames },
        b \in BOOLEAN, gs \in BOOLEAN }

\* A font object: the strategy that gave it, the position in the strategy's
\* list, the size it was loaded at (load_default takes none)
Font(strategy, at, size) == [ strategy |-> strategy, at |-> at, size |-> size ]
NoFont == Font("none", 0, 0)

\* font.getsize("A"): the built-in bitmap font has 6 x 11 glyphs; the files
\* and names are monospace faces, taken here to advance about 0.6 em in
\* lines of the size plus 2
GlyphSize(font) ==
    IF font.strategy = "default" THEN << 6, 11 >>
    ELSE << (3 * font.size) \div 5 + 1, font.size + 2 >>

\* One call of ImageFont.truetype or load_default, as logged
Attempt(strategy, at) == << strategy, at >>

Resolution(font, log) == [ font |-> font, log |-> log ]

\* main.py:144-150  the loop over default_font_paths from position i on
RECURSIVE TryPaths(_, _, _, _)
TryPaths(env, size, i, log) ==
    IF i > Len(default_font_paths) THEN Resolution(NoFont, log)
    ELSE IF env.path_state[i] = "absent" THEN TryPaths(env, size, i + 1, log)
    ELSE IF env.path_state[i] = "ok"
         THEN Resolution(Font("path", i, size), Append(log, Attempt("path", i)))
         ELSE TryPaths(env, size, i + 1, Append(log, Attempt("path", i)))

\* main.py:155-160  the loop over common_fonts from position j on; font is
\* the local variable font, kept when no name loads
RECURSIVE TryNames(_, _, _, _, _)
TryNames(env, size, j, font, log) ==
    IF j > Len(common_fonts) THEN Resolution(font, log)
    ELSE IF env.name_ok[j]
         THEN Resolution(Font("name", j, size), Append(log, Attempt("name", j)))
         ELSE TryNames(env, size, j + 1, font, Append(log, Attempt("name", j)))

\* Faulty variant: the names are tried whether or not a file has loaded.
NamesAlwaysTried(font) == TRUE

\* main.py:153  if font is None
NamesTried(font) == font = NoFont

\* main.py:163-164  load_default(), after every truetype attempt has been
\* logged in log; when it raises, line 171 raises the RuntimeError and the
\* call has no font
LoadDefault(env, log) ==
    IF env.builtin_ok
    THEN Resolution(Font("default", 0, 0), Append(log, Attempt("default", 0)))
    ELSE Resolution(NoFont, Append(log, Attempt("default", 0)))

\* main.py:139-164  the font of the first attempt that succeeds, with the
\* attempts made
ResolveFont(env, size) ==
    LET byPath == TryPaths(env, size, 1, << >>)
        byName == IF NamesTried(byPath.font)
                  THEN TryNames(env, size, 1, byPath.font, byPath.log)
                  ELSE byPath
    IN  IF byName.font # NoFont THEN byName ELSE LoadDefault(env, byName.log)

\* ------------------------------------------------------------------------
\* save_ascii_image, main.py:89-130 (test.py:88-120 is the same rendering)

\* A line of n characters
Glyphs(n) == [k \in 1..n |-> "@"]

\* The grids handed to save_ascii_image: none, an empty line, an empty first
\* line above another, and grids as generate_ascii_art returns them, the last
\* also with a shorter final line
RenderGrids ==
    { << >>,
      << Glyphs(0) >>,
      << Glyphs(0), Glyphs(2) >>,
      << Glyphs(1) >>,
      << Glyphs(3), Glyphs(3), Glyphs(2) >> }

\* main.py:97-101  font.getsize("A") where the font has the method
CharSize(env, font) ==
    IF env.has_getsize THEN GlyphSize(font) ELSE FallbackCharSize

\* Faulty variant: the width follows the last line instead of the first.
ImageSizeByLastLine(char_size, lines) ==
    << char_size[1] * Len(lines[Len(lines)]), char_size[2] * Len(lines) >>

\* main.py:104-105  img_width, img_height; lines is not empty
ImageSize(char_size, lines) ==
    << char_size[1] * Len(lines[1]), char_size[2] * Len(lines) >>

SaveOutcome(why, file, wrote) == [ raised |-> why, file |-> file, wrote |-> wrote ]

\* main.py:126  img.save(output_path, 'PNG', ...) when before is at the
\* path.  Image.save opens the path for writing, which creates or empties
\* the file, and then runs the PNG encoder.  The encoder refuses an image
\* with a side of 0 ("tile cannot extend outside image"), and may fail on
\* any image while writing.  A failure leaves the path as it was (opening
\* failed, or the library removed the file the call had created) or leaves
\* the emptied or half-written file.
SaveImageFile(size, before) ==
    LET failures == { SaveOutcome("save", before, FALSE),
                      SaveOutcome("save", "partial", TRUE) }
    IN  IF size[1] = 0 \/ size[2] = 0 THEN failures
        ELSE failures \cup { SaveOutcome("none", "png", TRUE) }

\* The call a thread is in.  op is the method called: save_ascii_image, or
\* _get_font alone.
IdleCall ==
    [ pc |-> "idle",
      op |-> "none",
      ascii_lines |-> << >>,  \* argument ascii_lines
      font_size |-> 0,        \* argument font_size
      font |-> NoFont,        \* local font
      attempts |-> << >>,     \* the truetype and load_default calls made
      hit |-> FALSE,          \* whether line 136 found the size in the cache
      bitmap |-> << >>,       \* the size of img once line 108 has made it
      raised |-> "none",      \* what raised, if anything did
      wrote |-> FALSE ]       \* whether the call left a file it wrote to

\* main.py:89-94  a thread calls save_ascii_image and comes to line 94
SaveAsciiImage(t) ==
    /\ t \in callers
    /\ calls[t].pc = "idle"
    /\ \E lines \in RenderGrids, size \in FontSizes :
        /\ calls' = [calls EXCEPT ![t] =
                        [IdleCall EXCEPT !.pc = "lookup",
                                         !.op = "save_ascii_image",
                                         !.ascii_lines = lines,
                                         !.font_size = size]]
        /\ requested' = requested \cup { size }
    /\ UNCHANGED << font_env, font_cache, cache_writes, png_file, callers,
                    sampleVars, convertVars, uiVars, contrast, gamma >>

\* main.py:132  a thread calls _get_font
GetFont(t) ==
    /\ t \in callers
    /\ calls[t].pc = "idle"
    /\ \E size \in FontSizes :
        /\ calls' = [calls EXCEPT ![t] =
                        [IdleCall EXCEPT !.pc = "lookup",
                                         !.op = "_get_font",
                                         !.font_size = size]]
        /\ requested' = requested \cup { size }
    /\ UNCHANGED << font_env, font_cache, cache_writes, png_file, callers,
                    sampleVars, convertVars, uiVars, contrast, gamma >>

\* main.py:135-137  the cache lookup; font_cache holds NoFont for the sizes
\* that are not in the dictionary
GetFontLookup(t) ==
    /\ calls[t].pc = "lookup"
    /\ LET cached == font_cache[calls[t].font_size] IN
        calls' = [calls EXCEPT
            ![t].pc = IF cached # NoFont THEN "font" ELSE "load",
            ![t].hit = cached # NoFont,
            ![t].font = cached]
    /\ UNCHANGED << font_env, font_cache, cache_writes, requested, png_file,
                    callers, sampleVars, convertVars, uiVars, contrast, gamma >>

\* main.py:139-171  the chain of attempts, then the store of line 167 or the
\* RuntimeError of line 171
GetFontLoad(t) ==
    /\ calls[t].pc = "load"
    /\ LET size == calls[t].font_size
           r == ResolveFont(font_env, size)
       IN  IF r.font = NoFont
           THEN /\ calls' = [calls EXCEPT ![t].pc = "end",
                                          ![t].attempts = r.log,
                                          ![t].raised = "font"]
                /\ UNCHANGED << font_cache, cache_writes >>
           ELSE /\ calls' = [calls EXCEPT ![t].pc = "font",
                                          ![t].attempts = r.log,
                                          ![t].font = r.font]
                /\ font_cache' = [font_cache EXCEPT ![size] = r.font]
                /\ cache_writes' = [cache_writes EXCEPT ![size] = @ + 1]
    /\ UNCHANGED << font_env, requested, png_file, callers,
                    sampleVars, convertVars, uiVars, contrast, gamma >>

\* main.py:96-130  measure, size the image, draw, save.  ascii_lines[0]
\* raises IndexError when there is no line.
Render(t) ==
    /\ calls[t].pc = "font"
    /\ calls[t].op = "save_ascii_image"
    /\ LET lines == calls[t].ascii_lines IN
        IF lines = << >>
        THEN /\ calls' = [calls EXCEPT ![t].pc = "end", ![t].raised = "index"]
             /\ UNCHANGED png_file
        ELSE LET size == ImageSize(CharSize(font_env, calls[t].font), lines) IN
             \E o \in SaveImageFile(size, png_file) :
                /\ calls' = [calls EXCEPT ![t].pc = "end",
                                          ![t].bitmap = size,
                                          ![t].raised = o.raised,
                                          ![t].wrote = o.wrote]
                /\ png_file' = o.file
    /\ UNCHANGED << font_env, font_cache, cache_writes, requested, callers,
                    sampleVars, convertVars, uiVars, contrast, gamma >>

\* The call returns, or its RuntimeError reaches the caller
Return(t) ==
    /\ \/ calls[t].pc = "end"
       \/ calls[t].pc = "font" /\ calls[t].op = "_get_font"
    /\ calls' = [calls EXCEPT ![t] = IdleCall]
    /\ UNCHANGED << font_env, font_cache, cache_writes, requested, png_file,
                    callers, sampleVars, convertVars, uiVars, contrast, gamma >>

\* main.py:27  self.font_cache = {}, on the machine env, called by who
RenderIdleOn(envs, who) ==
    /\ font_env \in envs
    /\ font_cache = [s \in FontSizes |-> NoFont]
    /\ cache_writes = [s \in FontSizes |-> 0]
    /\ requested = {}
    /\ png_file = "absent"
    /\ callers = who
    /\ calls = [t \in ThreadIds |-> IdleCall]
    /\ contrast = ContrastDen
    /\ gamma = <<1, 1>>
    /\ SampleIdle
    /\ ConvertIdle
    /\ UiIdle

\* ------------------------------------------------------------------------
\* SpecFont: one thread calls _get_font again and again on a machine with
\* some of the font files and names

\* at most this many of the font files are on the machine
MaxFontFiles == 2

\* at most this many of the font names are known to the machine
MaxFontNames == 1

FontInit == RenderIdleOn(FontEnvs(MaxFontFiles, MaxFontNames), { 1 })

FontNext ==
    \/ \E t \in ThreadIds : GetFont(t)
    \/ \E t \in ThreadIds : GetFontLookup(t)
    \/ \E t \in ThreadIds : GetFontLoad(t)
    \/ \E t \in ThreadIds : Return(t)

SpecFont == FontInit /\ [][FontNext]_vars

\* ------------------------------------------------------------------------
\* SpecRender: the threads call save_ascii_image, also at the same time, on
\* a machine with or without the Ubuntu font file

NoFontFiles == [i \in DOMAIN default_font_paths |-> "absent"]
NoFontNames == [j \in DOMAIN common_fonts |-> FALSE]

RenderEnvs ==
    { FontEnv(ps, NoFontNames, b, gs) :
        ps \in { NoFontFiles, [NoFontFiles EXCEPT ![2] = "ok"] },
        b \in BOOLEAN, gs \in BOOLEAN }

RenderInit == RenderIdleOn(RenderEnvs, ThreadIds)

RenderNext ==
    \/ \E t \in ThreadIds : SaveAsciiImage(t)
    \/ \E t \in ThreadIds : GetFontLookup(t)
    \/ \E t \in ThreadIds : GetFontLoad(t)
    \/ \E t \in ThreadIds : Render(t)
    \/ \E t \in ThreadIds : Return(t)

SpecRender == RenderInit /\ [][RenderNext]_vars

\* ------------------------------------------------------------------------
\* Properties of save_ascii_image and _get_font

\* The calls of save_ascii_image that have come to their end
EndedRender(t) ==
    calls[t].op = "save_ascii_image" /\ calls[t].pc = "end"

\* C12: a call of save_ascii_image with at least one line and a first line
\* of at least one character makes a bitmap exactly charWidth * len(lines[0])
\* wide and charHeight * len(lines) high, where (charWidth, charHeight) is
\* what the font reports for "A", the font being loaded at the size asked
\* for, or (6, 12) when the font has no getsize; only a failed font
\* resolution ends such a call without a bitmap.
C12_RenderSize ==
    \A t \in ThreadIds :
        LET c == calls[t]
            lines == c.ascii_lines
        IN  (EndedRender(t) /\ lines # << >> /\ Len(lines[1]) >= 1) =>
               IF c.raised = "font" THEN c.font = NoFont /\ c.bitmap = << >>
               ELSE /\ c.font # NoFont
                    /\ c.font.strategy # "default" => c.font.size = c.font_size
                    /\ LET w == IF font_env.has_getsize
                                THEN GlyphSize(c.font)[1] ELSE 6
                           h == IF font_env.has_getsize
                                THEN GlyphSize(c.font)[2] ELSE 12
                       IN  c.bitmap = << w * Len(lines[1]), h * Len(lines) >>

\* A grid of three lines with a shorter last line has been rendered and
\* saved in the metrics of a font file.
C12_Witness ==
    \E t \in ThreadIds :
        /\ EndedRender(t)
        /\ calls[t].raised = "none"
        /\ Len(calls[t].ascii_lines) = 3
        /\ calls[t].font.strategy = "path"
        /\ font_env.has_getsize
        /\ calls[t].bitmap[1] = 3 * GlyphSize(calls[t].font)[1]
        /\ png_file = "png"

\* C13: a call of save_ascii_image with no line, or with a first line of no
\* character, ends in an error and has written nothing to the PNG path.
C13_EmptyGridRejected ==
    \A t \in ThreadIds :
        LET c == calls[t] IN
        (EndedRender(t)
            /\ (c.ascii_lines = << >> \/ Len(c.ascii_lines[1]) = 0)) =>
            /\ c.raised # "none"
            /\ ~c.wrote

\* C14: the font cache starts empty, holds a size only once that size has
\* been asked for, is written at most once per size, and a stored entry is
\* never removed or written again, also when calls overlap.
C14_CacheWrittenOnce ==
    \A s \in FontSizes :
        /\ cache_writes[s] <= 1
        /\ font_cache[s] # NoFont => (s \in requested /\ cache_writes[s] = 1)
        /\ cache_writes[s] >= 1 => font_cache[s] # NoFont

\* The place of an attempt in the chain: the files, then the names, then the
\* built-in font
Rank(a) ==
    CASE a[1] = "path" -> a[2]
      [] a[1] = "name" -> Len(default_font_paths) + a[2]
      [] a[1] = "default" -> Len(default_font_paths) + Len(common_fonts) + 1

\* Whether the attempt gives a font on the machine env
Succeeds(env, a) ==
    CASE a[1] = "path" -> env.path_state[a[2]] = "ok"
      [] a[1] = "name" -> env.name_ok[a[2]]
      [] a[1] = "default" -> env.builtin_ok

\* Every attempt the chain can make, bar the files that are not there
Chain(env) ==
    { Attempt("path", i) : i \in { k \in DOMAIN default_font_paths :
                                      env.path_state[k] # "absent" } }
    \cup { Attempt("name", j) : j \in DOMAIN common_fonts }
    \cup { Attempt("default", 0) }

\* C15: a call of _get_font that misses the cache tries the font files that
\* exist in their listed order, then the font names in their listed order,
\* then the built-in font; it leaves no attempt out and stops at the first
\* that succeeds, whose font is the result; a failed attempt does not end
\* the chain; the call raises only when every attempt, the built-in font
\* included, has failed.  A call that hits the cache makes no attempt.
C15_FirstSuccessWins ==
    \A t \in ThreadIds :
        LET c == calls[t]
            log == c.attempts
            last == log[Len(log)]
        IN  /\ c.hit => log = << >>
            /\ (c.pc \in { "font", "end" } /\ ~c.hit) =>
                  /\ log # << >>
                  /\ \A k \in DOMAIN log : log[k] \in Chain(font_env)
                  /\ \A k, l \in DOMAIN log :
                        k < l => Rank(log[k]) < Rank(log[l])
                  /\ \A a \in Chain(font_env) :
                        Rank(a) < Rank(last) => a \in Range(log)
                  /\ \A k \in DOMAIN log :
                        k < Len(log) => ~Succeeds(font_env, log[k])
                  /\ IF Succeeds(font_env, last)
                     THEN /\ c.raised = "none"
                          /\ c.font.strategy = last[1]
                          /\ c.font.at = last[2]
                     ELSE /\ c.raised = "font"
                          /\ c.font = NoFont
                          /\ last = Attempt("default", 0)

\* A call has got its font from a font name after a font file that is there
\* failed to load and the names before it were not found.
C15_Witness ==
    \E t \in ThreadIds :
        LET c == calls[t] IN
        /\ c.pc = "font"
        /\ c.font.strategy = "name"
        /\ Len(c.attempts) >= 3
        /\ c.attempts[1][1] = "path"

====
